---------------------------- MODULE Spec2Model ----------------------------
(***************************************************************************)
(* A model of the serial monitor's message item (src/types/index.ts):      *)
(* the line-ending highlighter highlightLineEndings, the component         *)
(* MessageItemComponent with its hooks and event handlers, and the         *)
(* React.memo wrapper MessageItem with its props comparator.               *)
(*                                                                         *)
(* A JavaScript string is a sequence of UTF-16 code units (naturals).      *)
(* An optional value (a `?:` prop or field) is the empty set when it is    *)
(* undefined and the singleton of its value otherwise.  A Uint8Array, a    *)
(* Date, a callback or a config object is known to the component by its    *)
(* reference: `===` and the hook dependency check compare references.      *)
(***************************************************************************)
EXTENDS Integers, Sequences, FiniteSets, TLC

VARIABLES
    props,      \* the props the parent passed last
    memoProps,  \* the props of the component's last render (memoizedProps)
    hooks,      \* the useMemo / useCallback cells: dependencies and value
    isHovered,  \* React.useState(false)
    view,       \* the element tree returned by the last render
    lastEvent,  \* the last event and what its handlers did
    pointerOver,\* whether the pointer is over the item (the browser's view)
    renders,    \* how often the message list has rendered the item again
    hlText,     \* highlighter harness: the text argument
    hlFormat,   \* highlighter harness: the format argument
    hlResult,   \* highlighter harness: the returned node
    hlPc        \* highlighter harness: "call" before, "done" after

vars == <<props, memoProps, hooks, isHovered, view, lastEvent, pointerOver, renders,
          hlText, hlFormat, hlResult, hlPc>>

compVars == <<props, memoProps, hooks, isHovered, view, lastEvent, pointerOver,
              renders>>
hlVars == <<hlText, hlFormat, hlResult, hlPc>>

----------------------------------------------------------------------------
(* Bounds of the model. *)

\* Longest text handed to the highlighter harness.
MaxLen == 5

\* How often the message list renders the item again in SpecMemo.
MaxRenders == 2

----------------------------------------------------------------------------
(* Types. *)

DataFormat == {"hex", "binary", "ascii", "decimal", "utf8", "base64"}

MessageType == {"sent", "received"}

Undefined == {}

Some(x) == {x}

IsDefined(o) == o # {}

ValueOf(o) == CHOOSE x \in o : TRUE

Optional(S) == {Undefined} \cup {Some(x) : x \in S}

----------------------------------------------------------------------------
(* Characters. *)

CR == 13
LF == 10
SPACE == 32

\* the characters 0, D, A, and the code units of the labels "\r" and "\n"
Ch0 == 48
ChD == 68
ChA == 65
ChBackslash == 92
ChLowerR == 114
ChLowerN == 110
ChLowerA == 97

\* what the regular expression class \s matches
IsWhitespace(c) ==
    \/ c \in {9, 10, 11, 12, 13, 32, 160, 5760, 8232, 8233, 8239, 8287,
              12288, 65279}
    \/ (c >= 8192 /\ c <= 8202)

\* String.prototype.toUpperCase on one code unit (the ASCII letters; no
\* other character upper-cases to 0, D or A)
UpperChar(c) == IF c >= 97 /\ c <= 122 THEN c - 32 ELSE c

toUpperCase(s) == [i \in 1..Len(s) |-> UpperChar(s[i])]

\* text.substring(from, to) with 0-based, end-exclusive indices
substring(s, from, to) == SubSeq(s, from + 1, to)

----------------------------------------------------------------------------
(* highlightLineEndings *)

\* the <span> the highlighter wraps a match in
Span(key, isCR, title, children) ==
    [tag |-> "span", key |-> key,
     backgroundColor |-> IF isCR THEN "var(--mantine-color-orange-2)"
                                 ELSE "var(--mantine-color-cyan-2)",
     color |-> IF isCR THEN "var(--mantine-color-orange-9)"
                       ELSE "var(--mantine-color-cyan-9)",
     title |-> title, children |-> children]

\* a plain string child
Str(s) == [tag |-> "string", str |-> s]

\* the length of the longest prefix of s, from index i (1-based), whose
\* characters all have IsWhitespace = ws
RECURSIVE RunEnd(_, _, _)
RunEnd(s, i, ws) ==
    IF i > Len(s) \/ IsWhitespace(s[i]) # ws THEN i
    ELSE RunEnd(s, i + 1, ws)

\* text.split(/(\s+)/): the pieces between whitespace runs (empty at either
\* end when the text begins or ends with whitespace) and the runs themselves
RECURSIVE SplitFrom(_, _)
SplitFrom(s, i) ==
    LET e == RunEnd(s, i, FALSE)
        word == SubSeq(s, i, e - 1)
    IN IF e > Len(s) THEN <<word>>
       ELSE LET f == RunEnd(s, e, TRUE)
            IN <<word, SubSeq(s, e, f - 1)>> \o SplitFrom(s, f)

splitWhitespace(text) == SplitFrom(text, 1)

\* HexPart with a prefix test in place of the equality
HexPart_Prefix(word, i) ==
    LET upperWord == toUpperCase(word)
        head == IF Len(upperWord) >= 2 THEN SubSeq(upperWord, 1, 2) ELSE upperWord
    IN IF head = <<Ch0, ChD>> \/ head = <<Ch0, ChA>>
       THEN LET isCR == head = <<Ch0, ChD>>
            IN Span(i, isCR,
                    IF isCR THEN "Carriage Return (CR, \\r, 0x0D)"
                            ELSE "Line Feed (LF, \\n, 0x0A)",
                    word)
       ELSE Str(word)

\* the body of the hex loop for words[i] (i is the 0-based index)
HexPart(word, i) ==
    LET upperWord == toUpperCase(word)
    IN IF upperWord = <<Ch0, ChD>> \/ upperWord = <<Ch0, ChA>>
       THEN LET isCR == upperWord = <<Ch0, ChD>>
            IN Span(i, isCR,
                    IF isCR THEN "Carriage Return (CR, \\r, 0x0D)"
                            ELSE "Line Feed (LF, \\n, 0x0A)",
                    word)
       ELSE Str(word)

highlightHex(text) ==
    LET words == splitWhitespace(text)
        parts == [i \in 1..Len(words) |-> HexPart(words[i], i - 1)]
    IN IF Len(parts) > 0 THEN [kind |-> "parts", parts |-> parts]
       ELSE [kind |-> "text", text |-> text]

\* CharSpan with the two labels exchanged
CharSpan_Swapped(char, i) ==
    LET isCR == char = CR
    IN Span(i, isCR,
            IF isCR THEN "Carriage Return (CR, \\r)" ELSE "Line Feed (LF, \\n)",
            IF isCR THEN <<ChBackslash, ChLowerN>> ELSE <<ChBackslash, ChLowerR>>)

\* the highlighted element for the character at index i
CharSpan(char, i) ==
    LET isCR == char = CR
    IN Span(i, isCR,
            IF isCR THEN "Carriage Return (CR, \\r)" ELSE "Line Feed (LF, \\n)",
            IF isCR THEN <<ChBackslash, ChLowerR>> ELSE <<ChBackslash, ChLowerN>>)

\* the for loop of the ascii/utf8 branch: i and lastIndex are 0-based
RECURSIVE CharLoop(_, _, _, _)
CharLoop(text, i, lastIndex, parts) ==
    IF i >= Len(text) THEN [lastIndex |-> lastIndex, parts |-> parts]
    ELSE LET char == text[i + 1]
         IN IF char = CR \/ char = LF
            THEN LET before == IF i > lastIndex
                               THEN <<Str(substring(text, lastIndex, i))>>
                               ELSE <<>>
                 IN CharLoop(text, i + 1, i + 1,
                             parts \o before \o <<CharSpan(char, i)>>)
            ELSE CharLoop(text, i + 1, lastIndex, parts)

\* highlightChars without the push of the remaining text
highlightChars_NoTail(text) ==
    LET parts == CharLoop(text, 0, 0, <<>>).parts
    IN IF Len(parts) > 0 THEN [kind |-> "parts", parts |-> parts]
       ELSE [kind |-> "text", text |-> text]

highlightChars(text) ==
    LET loop == CharLoop(text, 0, 0, <<>>)
        parts == IF loop.lastIndex < Len(text)
                 THEN loop.parts \o <<Str(substring(text, loop.lastIndex, Len(text)))>>
                 ELSE loop.parts
    IN IF Len(parts) > 0 THEN [kind |-> "parts", parts |-> parts]
       ELSE [kind |-> "text", text |-> text]

\* highlightLineEndings whose character branch takes every other format
highlightLineEndings_NoElse(text, format) ==
    IF format = "hex" THEN highlightHex(text) ELSE highlightChars(text)

highlightLineEndings(text, format) ==
    IF format = "hex" THEN highlightHex(text)
    ELSE IF format = "ascii" \/ format = "utf8" THEN highlightChars(text)
    ELSE [kind |-> "text", text |-> text]

----------------------------------------------------------------------------
(* bytesToString (utils/formatConverter): the display string of a byte     *)
(* array in one of the six formats.                                        *)

\* array.join(sep) over strings
RECURSIVE Join(_, _)
Join(strs, sep) ==
    IF Len(strs) = 0 THEN <<>>
    ELSE IF Len(strs) = 1 THEN strs[1]
    ELSE strs[1] \o sep \o Join(Tail(strs), sep)

HexDigit(d) == IF d < 10 THEN 48 + d ELSE 97 + (d - 10)

HexPair(b) == <<HexDigit(b \div 16), HexDigit(b % 16)>>

BinaryOctet(b) == [i \in 1..8 |-> 48 + ((b \div (2 ^ (8 - i))) % 2)]

RECURSIVE DecimalDigits(_)
DecimalDigits(n) ==
    IF n < 10 THEN <<48 + n>> ELSE DecimalDigits(n \div 10) \o <<48 + (n % 10)>>

Base64Char(v) ==
    IF v < 26 THEN 65 + v
    ELSE IF v < 52 THEN 97 + (v - 26)
    ELSE IF v < 62 THEN 48 + (v - 52)
    ELSE IF v = 62 THEN 43 ELSE 47

RECURSIVE Base64(_)
Base64(bytes) ==
    IF Len(bytes) = 0 THEN <<>>
    ELSE IF Len(bytes) = 1
    THEN <<Base64Char(bytes[1] \div 4), Base64Char((bytes[1] % 4) * 16), 61, 61>>
    ELSE IF Len(bytes) = 2
    THEN <<Base64Char(bytes[1] \div 4),
           Base64Char((bytes[1] % 4) * 16 + bytes[2] \div 16),
           Base64Char((bytes[2] % 16) * 4), 61>>
    ELSE <<Base64Char(bytes[1] \div 4),
           Base64Char((bytes[1] % 4) * 16 + bytes[2] \div 16),
           Base64Char((bytes[2] % 16) * 4 + bytes[3] \div 64),
           Base64Char(bytes[3] % 64)>> \o Base64(SubSeq(bytes, 4, Len(bytes)))

\* a byte decoded on its own: itself in the ASCII range, U+FFFD otherwise
Utf8Char(b) == IF b < 128 THEN b ELSE 65533

bytesToString(bytes, format) ==
    CASE format = "hex" ->
           Join([i \in 1..Len(bytes) |-> HexPair(bytes[i])], <<SPACE>>)
      [] format = "binary" ->
           Join([i \in 1..Len(bytes) |-> BinaryOctet(bytes[i])], <<SPACE>>)
      [] format = "decimal" ->
           Join([i \in 1..Len(bytes) |-> DecimalDigits(bytes[i])], <<SPACE>>)
      [] format = "ascii" -> bytes
      [] format = "utf8" -> [i \in 1..Len(bytes) |-> Utf8Char(bytes[i])]
      [] format = "base64" -> Base64(bytes)

----------------------------------------------------------------------------
(* The objects the parent holds: byte arrays and dates by reference,       *)
(* callbacks and configs by name.                                          *)

\* the Uint8Array objects; two of them hold the same bytes
DataHeap == << <<CR, LF>>, <<ChA, CR>>, <<CR, LF>> >>

DataRefs == DOMAIN DataHeap

\* the Date objects, by what toLocaleTimeString() prints for them
DateHeap == << "09:41:07", "09:41:08" >>

DateRefs == DOMAIN DateHeap

ResendFns == {"onResend"}

Configs == {"config"}

MessageIds == {"m1", "m2"}

\* the input strings of sent messages: the empty string and "A\r"
OriginalDatas == {<<>>, <<ChA, CR>>}

\* the texts stored in message.displayText when the message was created
StoredTexts == {<<ChA, CR>>, <<Ch0, ChD>>}

SerialMessage ==
    [id : MessageIds, type : MessageType, data : DataRefs,
     timestamp : DateRefs, format : DataFormat, displayText : StoredTexts,
     originalData : Optional(OriginalDatas)]

MessageItemProps ==
    [message : SerialMessage, onResend : Optional(ResendFns),
     isConnected : Optional(BOOLEAN), currentConfig : Optional(Configs),
     displayFormat : Optional(DataFormat)]

----------------------------------------------------------------------------
(* MessageItemComponent: one render.                                       *)

\* useMemo / useCallback: the cell is kept when the component is mounted and
\* every dependency is the same, and recomputed otherwise
useMemo(mounted, cell, deps, value) ==
    IF mounted /\ cell.deps = deps THEN cell ELSE [deps |-> deps, value |-> value]

\* a JavaScript value as the && chain of canResend yields it: the first
\* falsy operand, or the last operand
JsFalse == "false"
JsUndefined == "undefined"
JsEmptyString == "''"

Truthy(v) == v \notin {JsFalse, JsUndefined, JsEmptyString}

OfBoolean(o) ==
    IF o = Undefined THEN JsUndefined
    ELSE IF ValueOf(o) THEN "true" ELSE JsFalse

OfString(o) ==
    IF o = Undefined THEN JsUndefined
    ELSE IF ValueOf(o) = <<>> THEN JsEmptyString ELSE "string"

OfObject(o) == IF o = Undefined THEN JsUndefined ELSE ValueOf(o)

\* displayFormat || message.format
formatToUseOf(displayFormat, format) ==
    IF IsDefined(displayFormat) THEN ValueOf(displayFormat) ELSE format

\* bytesToString(message.data, formatToUse)
displayTextOf_Stored(m, formatToUse) == m.displayText

displayTextOf(m, formatToUse) == bytesToString(DataHeap[m.data], formatToUse)

\* canResendOf without the isConnected operand
canResendOf_Disconnected(isSent, isConnected, originalData, onResend, currentConfig) ==
    IF ~isSent THEN JsFalse
    ELSE IF ~Truthy(OfString(originalData)) THEN OfString(originalData)
    ELSE IF ~Truthy(OfObject(onResend)) THEN OfObject(onResend)
    ELSE OfObject(currentConfig)

\* isSent && isConnected && message.originalData && onResend && currentConfig
canResendOf(isSent, isConnected, originalData, onResend, currentConfig) ==
    IF ~isSent THEN JsFalse
    ELSE IF ~Truthy(OfBoolean(isConnected)) THEN OfBoolean(isConnected)
    ELSE IF ~Truthy(OfString(originalData)) THEN OfString(originalData)
    ELSE IF ~Truthy(OfObject(onResend)) THEN OfObject(onResend)
    ELSE OfObject(currentConfig)

\* the hooks of one render, in the order the component calls them
RenderHooks(mounted, old, p) ==
    LET m == p.message
        formatToUse ==
            useMemo(mounted, old.formatToUse, <<p.displayFormat, m.format>>,
                    formatToUseOf(p.displayFormat, m.format))
        displayText ==
            useMemo(mounted, old.displayText, <<m.data, formatToUse.value>>,
                    displayTextOf(m, formatToUse.value))
        highlightedText ==
            useMemo(mounted, old.highlightedText,
                    <<displayText.value, formatToUse.value>>,
                    highlightLineEndings(displayText.value, formatToUse.value))
        isSent ==
            useMemo(mounted, old.isSent, <<m.type>>, m.type = "sent")
        canResend ==
            useMemo(mounted, old.canResend,
                    <<isSent.value, p.isConnected, m.originalData, p.onResend,
                      p.currentConfig>>,
                    canResendOf(isSent.value, p.isConnected, m.originalData,
                                p.onResend, p.currentConfig))
        handleClick ==
            useMemo(mounted, old.handleClick,
                    <<canResend.value, m.originalData, m.format, p.onResend,
                      p.currentConfig>>,
                    [canResend |-> canResend.value,
                     originalData |-> m.originalData, format |-> m.format,
                     onResend |-> p.onResend, currentConfig |-> p.currentConfig])
        handleCopy ==
            useMemo(mounted, old.handleCopy, <<displayText.value>>,
                    [displayText |-> displayText.value])
    IN [formatToUse |-> formatToUse, displayText |-> displayText,
        highlightedText |-> highlightedText, isSent |-> isSent,
        canResend |-> canResend, handleClick |-> handleClick,
        handleCopy |-> handleCopy]

\* the element tree the component returns
RenderView(h, p, hovered) ==
    [onClick |-> IF Truthy(h.canResend.value) THEN Some(h.handleClick.value)
                 ELSE Undefined,
     cursor |-> IF Truthy(h.canResend.value) THEN "pointer" ELSE "default",
     icon |-> IF h.isSent.value THEN "IconArrowLeft" ELSE "IconArrowRight",
     time |-> DateHeap[p.message.timestamp],
     codeBackground |-> IF h.isSent.value THEN "var(--mantine-color-blue-0)"
                        ELSE "var(--mantine-color-green-0)",
     code |-> h.highlightedText.value,
     copyOnClick |-> h.handleCopy.value,
     copyOpacity |-> IF hovered THEN 1 ELSE 0,
     copyPointerEvents |-> IF hovered THEN "auto" ELSE "none"]

\* a first render: no cell is reused
MountHooks(p) == RenderHooks(FALSE, <<>>, p)

----------------------------------------------------------------------------
(* The event handlers.                                                     *)

NoEffects ==
    [written |-> Undefined, logged |-> FALSE, threw |-> FALSE, calls |-> <<>>]

\* handleClick, as the closure `h` of the render that created it
handleClick(h) ==
    IF Truthy(h.canResend) /\ Truthy(OfString(h.originalData))
       /\ IsDefined(h.onResend) /\ IsDefined(h.currentConfig)
    THEN <<[fn |-> ValueOf(h.onResend),
            args |-> <<ValueOf(h.originalData), h.format,
                       ValueOf(h.currentConfig)>>]>>
    ELSE <<>>

\* handleCopy without the try/catch around the clipboard write
handleCopy_NoCatch(h, ok) ==
    [stopPropagation |-> TRUE,
     written |-> IF ok THEN Some(h.displayText) ELSE Undefined,
     logged |-> FALSE, threw |-> ~ok]

\* handleCopy without e.stopPropagation()
handleCopy_Propagates(h, ok) ==
    [stopPropagation |-> FALSE,
     written |-> IF ok THEN Some(h.displayText) ELSE Undefined,
     logged |-> ~ok, threw |-> FALSE]

\* handleCopy, as the closure `h` of the render that created it, when
\* navigator.clipboard.writeText resolves (ok) or rejects: the catch clause
\* takes every rejection
handleCopy(h, ok) ==
    LET rejected == ~ok
        caught == rejected
    IN [stopPropagation |-> TRUE,
        written |-> IF ok THEN Some(h.displayText) ELSE Undefined,
        logged |-> caught, threw |-> rejected /\ ~caught]

\* a click on the item outside the copy button: the Box's onClick
ItemClick ==
    /\ lastEvent' = [kind |-> "click", written |-> Undefined, logged |-> FALSE,
                     threw |-> FALSE,
                     calls |-> IF IsDefined(view.onClick)
                               THEN handleClick(ValueOf(view.onClick))
                               ELSE <<>>]
    /\ UNCHANGED <<props, memoProps, hooks, isHovered, view, pointerOver, renders>>
    /\ UNCHANGED hlVars

\* CopyClick with a handler that stores the copied text in the message
CopyClick_StoresText ==
    /\ view.copyPointerEvents = "auto"
    /\ \E ok \in BOOLEAN :
         LET r == handleCopy(view.copyOnClick, ok)
         IN /\ lastEvent' =
                 [kind |-> "copy", written |-> r.written, logged |-> r.logged,
                  threw |-> r.threw, calls |-> <<>>]
            /\ props' = [props EXCEPT !.message.displayText =
                                          view.copyOnClick.displayText]
    /\ UNCHANGED <<memoProps, hooks, isHovered, view, pointerOver, renders>>
    /\ UNCHANGED hlVars

\* a pointer click on the copy button, which takes pointer events only when
\* its style says so: handleCopy, then the Box's onClick unless propagation
\* was stopped
CopyClick ==
    /\ view.copyPointerEvents = "auto"
    /\ \E ok \in BOOLEAN :
         LET r == handleCopy(view.copyOnClick, ok)
         IN lastEvent' =
              [kind |-> "copy", written |-> r.written, logged |-> r.logged,
               threw |-> r.threw,
               calls |-> IF ~r.stopPropagation /\ IsDefined(view.onClick)
                         THEN handleClick(ValueOf(view.onClick))
                         ELSE <<>>]
    /\ UNCHANGED <<props, memoProps, hooks, isHovered, view, pointerOver, renders>>
    /\ UNCHANGED hlVars

\* onMouseEnter: setIsHovered(true); the state update renders the component
\* again with the props it holds
MouseEnter ==
    LET h == RenderHooks(TRUE, hooks, memoProps)
    IN /\ isHovered' = TRUE
       /\ hooks' = h
       /\ view' = RenderView(h, memoProps, TRUE)
       /\ pointerOver' = TRUE
       /\ lastEvent' = [kind |-> "mouseenter"] @@ NoEffects
       /\ UNCHANGED <<props, memoProps, renders>>
       /\ UNCHANGED hlVars

\* onMouseLeave: setIsHovered(false)
MouseLeave ==
    LET h == RenderHooks(TRUE, hooks, memoProps)
    IN /\ isHovered' = FALSE
       /\ hooks' = h
       /\ view' = RenderView(h, memoProps, FALSE)
       /\ pointerOver' = FALSE
       /\ lastEvent' = [kind |-> "mouseleave"] @@ NoEffects
       /\ UNCHANGED <<props, memoProps, renders>>
       /\ UNCHANGED hlVars

----------------------------------------------------------------------------
(* MessageItem: React.memo with the custom comparator.                     *)

\* arePropsEqual without the comparison of message.format
arePropsEqual_NoFormat(prevProps, nextProps) ==
    /\ prevProps.message.id = nextProps.message.id
    /\ prevProps.message.data = nextProps.message.data
    /\ prevProps.message.type = nextProps.message.type
    /\ prevProps.message.timestamp = nextProps.message.timestamp
    /\ prevProps.message.originalData = nextProps.message.originalData
    /\ prevProps.displayFormat = nextProps.displayFormat
    /\ prevProps.isConnected = nextProps.isConnected
    /\ prevProps.onResend = nextProps.onResend
    /\ prevProps.currentConfig = nextProps.currentConfig

arePropsEqual(prevProps, nextProps) ==
    /\ prevProps.message.id = nextProps.message.id
    /\ prevProps.message.data = nextProps.message.data
    /\ prevProps.message.format = nextProps.message.format
    /\ prevProps.message.type = nextProps.message.type
    /\ prevProps.message.timestamp = nextProps.message.timestamp
    /\ prevProps.message.originalData = nextProps.message.originalData
    /\ prevProps.displayFormat = nextProps.displayFormat
    /\ prevProps.isConnected = nextProps.isConnected
    /\ prevProps.onResend = nextProps.onResend
    /\ prevProps.currentConfig = nextProps.currentConfig

\* the parent renders the item with nextProps: the component renders again
\* unless the comparator finds the props equal to those of its last render
MessageItem(nextProps) ==
    /\ props' = nextProps
    /\ IF arePropsEqual(memoProps, nextProps)
       THEN UNCHANGED <<memoProps, hooks, view>>
       ELSE LET h == RenderHooks(TRUE, hooks, nextProps)
            IN /\ memoProps' = nextProps
               /\ hooks' = h
               /\ view' = RenderView(h, nextProps, isHovered)
    /\ lastEvent' = [kind |-> "props"] @@ NoEffects
    /\ UNCHANGED <<isHovered, pointerOver>>
    /\ UNCHANGED hlVars

\* the props that differ from p in one prop
PropChanges(p) ==
    ({[p EXCEPT !.onResend = v] : v \in Optional(ResendFns)}
     \cup {[p EXCEPT !.isConnected = v] : v \in Optional(BOOLEAN)}
     \cup {[p EXCEPT !.currentConfig = v] : v \in Optional(Configs)}
     \cup {[p EXCEPT !.displayFormat = v] : v \in Optional(DataFormat)})
    \ {p}

\* the messages that differ from m in its direction, bytes, format or input
ContentChanges(m) ==
    ({[m EXCEPT !.type = v] : v \in MessageType}
     \cup {[m EXCEPT !.data = v] : v \in DataRefs}
     \cup {[m EXCEPT !.format = v] : v \in DataFormat}
     \cup {[m EXCEPT !.originalData = v] : v \in Optional(OriginalDatas)})
    \ {m}

\* the messages that differ from m in its id, timestamp or stored text
RecordChanges(m) ==
    ({[m EXCEPT !.id = v] : v \in MessageIds}
     \cup {[m EXCEPT !.timestamp = v] : v \in DateRefs}
     \cup {[m EXCEPT !.displayText = v] : v \in StoredTexts})
    \ {m}

\* the parent renders the item again with one prop, or one field of the
\* message's content, changed
ParentRender ==
    /\ \E nextProps \in PropChanges(props)
           \cup {[props EXCEPT !.message = m] : m \in ContentChanges(props.message)} :
         MessageItem(nextProps)
    /\ UNCHANGED renders

\* the message list renders the item again with any one prop or field changed
ListRender ==
    /\ renders < MaxRenders
    /\ \E nextProps \in PropChanges(props)
           \cup {[props EXCEPT !.message = m] :
                   m \in ContentChanges(props.message)
                         \cup RecordChanges(props.message)} :
         MessageItem(nextProps)
    /\ renders' = renders + 1

----------------------------------------------------------------------------
(* The highlighter on its own: every text up to MaxLen over HlChars.       *)

HlChars == {CR, LF, SPACE, Ch0, ChD, ChLowerA}

HlTexts == UNION {[1..n -> HlChars] : n \in 0..MaxLen}

NoResult == [kind |-> "none"]

HlInit ==
    /\ hlText \in HlTexts
    /\ hlFormat \in DataFormat
    /\ hlResult = NoResult
    /\ hlPc = "call"

Highlight ==
    /\ hlPc = "call"
    /\ hlResult' = highlightLineEndings(hlText, hlFormat)
    /\ hlPc' = "done"
    /\ UNCHANGED <<hlText, hlFormat>>
    /\ UNCHANGED compVars

----------------------------------------------------------------------------
(* Specifications.                                                         *)

\* the item mounted with props p
Mounted(p) ==
    /\ props = p
    /\ memoProps = p
    /\ hooks = MountHooks(p)
    /\ isHovered = FALSE
    /\ view = RenderView(MountHooks(p), p, FALSE)
    /\ lastEvent = [kind |-> "mount"] @@ NoEffects
    /\ pointerOver = FALSE
    /\ renders = 0

HlIdle == hlText = <<>> /\ hlFormat = "hex" /\ hlResult = NoResult /\ hlPc = "done"

FirstMessage ==
    [id |-> "m1", type |-> "sent", data |-> 1, timestamp |-> 1,
     format |-> "hex", displayText |-> <<ChA, CR>>,
     originalData |-> Some(<<ChA, CR>>)]

\* the message item: mounted with any props for a message of the history,
\* then pointer events and parent renders in any order
Init ==
    /\ \E p \in MessageItemProps :
         /\ p.message.id = FirstMessage.id
         /\ p.message.timestamp = FirstMessage.timestamp
         /\ p.message.displayText = FirstMessage.displayText
         /\ Mounted(p)
    /\ HlIdle

Next ==
    \/ MouseEnter
    \/ MouseLeave
    \/ ItemClick
    \/ CopyClick
    \/ ParentRender

Spec == Init /\ [][Next]_vars

\* the memoized item in the message list: mounted for the first message with
\* any other props, then up to MaxRenders renders of the list and hovering
InitMemo ==
    /\ \E p \in MessageItemProps : p.message = FirstMessage /\ Mounted(p)
    /\ HlIdle

NextMemo ==
    \/ ListRender
    \/ MouseEnter
    \/ MouseLeave

SpecMemo == InitMemo /\ [][NextMemo]_vars

\* the highlighter called once on any text in any format
InitHL ==
    /\ HlInit
    /\ Mounted([message |-> FirstMessage, onResend |-> Undefined,
                isConnected |-> Undefined, currentConfig |-> Undefined,
                displayFormat |-> Undefined])

NextHL == Highlight

SpecHL == InitHL /\ [][NextHL]_vars

----------------------------------------------------------------------------
(* Properties of the highlighter (SpecHL).                                 *)

RECURSIVE Concat(_)
Concat(strs) == IF Len(strs) = 0 THEN <<>> ELSE strs[1] \o Concat(Tail(strs))

HasWhitespace(s) == \E i \in 1..Len(s) : IsWhitespace(s[i])

AllWhitespace(s) == \A i \in 1..Len(s) : IsWhitespace(s[i])

HasLineEnding(s) == \E i \in 1..Len(s) : s[i] \in {CR, LF}

IsSpan(piece) == piece.tag = "span"

\* what a piece shows
PieceText(piece) == IF IsSpan(piece) THEN piece.children ELSE piece.str

\* the 1-based positions of the CR and LF characters of a text, in order
LineEndingPositions(text) ==
    SelectSeq([i \in 1..Len(text) |-> i], LAMBDA i : text[i] \in {CR, LF})

HlDone == hlPc = "done"

\* C1: for format hex the result is the text cut into alternating pieces
\* without whitespace and non-empty runs of whitespace, in the text's order,
\* and a piece is wrapped exactly when, upper-cased, it is the whole token 0D
\* (marked CR) or 0A (marked LF); every other piece is a plain string.
C1_HexWholeTokens ==
    (HlDone /\ hlFormat = "hex") =>
        /\ hlResult.kind = "parts"
        /\ LET parts == hlResult.parts
           IN /\ Concat([i \in 1..Len(parts) |-> PieceText(parts[i])]) = hlText
              /\ \A i \in 1..Len(parts) :
                   LET word == PieceText(parts[i])
                       upper == toUpperCase(word)
                   IN /\ (i % 2 = 1) => ~HasWhitespace(word)
                      /\ (i % 2 = 0) => (Len(word) > 0 /\ AllWhitespace(word))
                      /\ IsSpan(parts[i]) <=> upper \in {<<Ch0, ChD>>, <<Ch0, ChA>>}
                      /\ IsSpan(parts[i]) =>
                           /\ parts[i].key = i - 1
                           /\ parts[i].title =
                                IF upper = <<Ch0, ChD>>
                                THEN "Carriage Return (CR, \\r, 0x0D)"
                                ELSE "Line Feed (LF, \\n, 0x0A)"
                           /\ parts[i].backgroundColor =
                                IF upper = <<Ch0, ChD>>
                                THEN "var(--mantine-color-orange-2)"
                                ELSE "var(--mantine-color-cyan-2)"

\* "0D 0a" highlighted: a CR token, a separator and a lower-case LF token
C1_Witness ==
    /\ HlDone /\ hlFormat = "hex"
    /\ hlText = <<Ch0, ChD, SPACE, Ch0, ChLowerA>>
    /\ IsSpan(hlResult.parts[1]) /\ ~IsSpan(hlResult.parts[2])
    /\ IsSpan(hlResult.parts[3])

\* C2: for ascii and utf8 the highlighted elements are, in order, one per CR
\* or LF character of the text, each labelled \r for a CR and \n for an LF.
C2_OneSpanPerLineEnding ==
    (HlDone /\ hlFormat \in {"ascii", "utf8"}) =>
        LET parts == IF hlResult.kind = "parts" THEN hlResult.parts ELSE <<>>
            spans == SelectSeq(parts, IsSpan)
            at == LineEndingPositions(hlText)
        IN /\ Len(spans) = Len(at)
           /\ \A k \in 1..Len(spans) :
                /\ spans[k].key = at[k] - 1
                /\ spans[k].children =
                     IF hlText[at[k]] = CR THEN <<ChBackslash, ChLowerR>>
                     ELSE <<ChBackslash, ChLowerN>>
                /\ spans[k].title =
                     IF hlText[at[k]] = CR THEN "Carriage Return (CR, \\r)"
                     ELSE "Line Feed (LF, \\n)"

\* "a\r\n0" highlighted as utf8: two elements, CR then LF
C2_Witness ==
    /\ HlDone /\ hlFormat = "utf8"
    /\ hlText = <<ChLowerA, CR, LF, Ch0>>
    /\ Len(SelectSeq(hlResult.parts, IsSpan)) = 2

\* C3: for binary, decimal and base64 the result is the text itself, with
\* nothing highlighted, whatever the text holds.
C3_OtherFormatsUnchanged ==
    (HlDone /\ hlFormat \notin {"hex", "ascii", "utf8"}) =>
        hlResult = [kind |-> "text", text |-> hlText]

\* a decimal text holding both a token 0D and a CR character
C3_Witness ==
    /\ HlDone /\ hlFormat = "decimal"
    /\ hlText = <<Ch0, ChD, CR, Ch0, ChLowerA>>
    /\ hlResult.kind = "text"

\* the text a piece stands for: a hex token verbatim, the CR or LF character
\* of a highlighted ascii/utf8 element, a plain string as it is
PieceSource(piece, format) ==
    IF ~IsSpan(piece) THEN piece.str
    ELSE IF format = "hex" THEN piece.children
    ELSE IF piece.children = <<ChBackslash, ChLowerR>> THEN <<CR>> ELSE <<LF>>

ResultSource(result, format) ==
    IF result.kind = "text" THEN result.text
    ELSE Concat([i \in 1..Len(result.parts) |-> PieceSource(result.parts[i], format)])

\* what C9 has in common with its amendment
C9_NothingLost ==
    /\ ResultSource(hlResult, hlFormat) = hlText
    /\ (hlFormat \in {"ascii", "utf8"} /\ hlResult.kind = "parts") =>
         \A i \in 1..Len(hlResult.parts) :
            ~IsSpan(hlResult.parts[i]) =>
               /\ Len(hlResult.parts[i].str) > 0
               /\ ~HasLineEnding(hlResult.parts[i].str)

\* C9 (as amended): the pieces, each taken as the text it stands for, spell
\* the input text in order; for ascii/utf8 every plain piece is non-empty and
\* free of CR and LF; a text without CR/LF comes back as the text itself when
\* it is empty and as the list of one plain piece, the text, when it is not.
C9_RoundTrip ==
    HlDone =>
        /\ C9_NothingLost
        /\ (hlFormat \in {"ascii", "utf8"} /\ ~HasLineEnding(hlText)) =>
             hlResult = IF hlText = <<>>
                        THEN [kind |-> "text", text |-> hlText]
                        ELSE [kind |-> "parts", parts |-> <<Str(hlText)>>]

\* "a0" highlighted as ascii: the one-piece list
C9_Witness ==
    /\ HlDone /\ hlFormat = "ascii"
    /\ hlText = <<ChLowerA, Ch0>>
    /\ hlResult.kind = "parts"

\* C9 as stated: a text without CR/LF, empty or not, comes back as the text
\* itself.
C9_Original ==
    HlDone =>
        /\ C9_NothingLost
        /\ (hlFormat \in {"ascii", "utf8"} /\ ~HasLineEnding(hlText)) =>
             hlResult = [kind |-> "text", text |-> hlText]

----------------------------------------------------------------------------
(* Properties of the message item (Spec, SpecMemo).                        *)

\* the format and the text a render of props p shows
ShownFormat(p) ==
    IF p.displayFormat # Undefined THEN ValueOf(p.displayFormat)
    ELSE p.message.format

ShownText(p) == bytesToString(DataHeap[p.message.data], ShownFormat(p))

UserEvents == {"mouseenter", "mouseleave", "click", "copy"}

\* C4: a copy whose clipboard write fails is logged and throws nothing, and
\* leaves the props, the hover flag, the hooks and the rendered tree as they
\* were; a copy whose write succeeds writes the display text of the effective
\* format and logs nothing.
C4_CopyFailureContained ==
    [][lastEvent'.kind = "copy" =>
         /\ ~lastEvent'.threw
         /\ <<props, memoProps, hooks, isHovered, view>>'
              = <<props, memoProps, hooks, isHovered, view>>
         /\ lastEvent'.logged <=> lastEvent'.written = Undefined
         /\ lastEvent'.written \in {Undefined, Some(ShownText(props))}]_vars

\* a copy failed
C4_Witness ==
    /\ lastEvent.kind = "copy"
    /\ lastEvent.logged
    /\ lastEvent.written = Undefined

\* C5: no event of the item (mouse-enter, mouse-leave, click, copy) changes a
\* field of the message, neither in the props nor in what the component holds.
C5_MessageNeverMutated ==
    [][lastEvent'.kind \in UserEvents =>
         /\ props'.message = props.message
         /\ memoProps'.message = memoProps.message]_vars

\* a copy succeeded on an item that showed another format than the message's
C5_Witness ==
    /\ lastEvent.kind = "copy"
    /\ lastEvent.written # Undefined
    /\ ShownFormat(props) # props.message.format

\* the one call of onResend a click on an item with props p makes, if any
ExpectedResend(p) ==
    IF /\ p.message.type = "sent"
       /\ p.isConnected = Some(TRUE)
       /\ p.message.originalData \notin {Undefined, Some(<<>>)}
       /\ p.onResend # Undefined
       /\ p.currentConfig # Undefined
    THEN <<[fn |-> ValueOf(p.onResend),
            args |-> <<ValueOf(p.message.originalData), p.message.format,
                       ValueOf(p.currentConfig)>>]>>
    ELSE <<>>

\* C6: a click on the item calls onResend exactly when the message is sent,
\* isConnected is true, originalData is a non-empty string and onResend and
\* currentConfig are given, and then once, with (originalData, message.format,
\* currentConfig).
C6_ResendOnClick ==
    lastEvent.kind = "click" => lastEvent.calls = ExpectedResend(props)

\* a click resent a hex message shown in another format
C6_Witness ==
    /\ lastEvent.kind = "click"
    /\ Len(lastEvent.calls) = 1
    /\ props.displayFormat \notin {Undefined, Some(props.message.format)}
    /\ lastEvent.calls[1].args[2] = props.message.format

\* C7: a copy click calls no onResend, and happens only while the pointer is
\* over the item; the copy button takes pointer events exactly then.
C7_CopyNeverResends ==
    /\ (view.copyPointerEvents = "auto") <=> pointerOver
    /\ isHovered <=> pointerOver
    /\ lastEvent.kind = "copy" => (pointerOver /\ lastEvent.calls = <<>>)
    /\ lastEvent.calls # <<>> => lastEvent.kind = "click"

\* a copy click on an item whose own click would resend
C7_Witness ==
    /\ lastEvent.kind = "copy"
    /\ view.onClick # Undefined
    /\ ExpectedResend(props) # <<>>

\* C8: the text shown, the highlighting and the text copied are all those of
\* bytesToString(message.data, f) for the one format f = displayFormat when
\* given, message.format otherwise; message.displayText plays no part.
C8_OneFormat ==
    /\ hooks.formatToUse.value = ShownFormat(props)
    /\ hooks.displayText.value = ShownText(props)
    /\ view.code = highlightLineEndings(ShownText(props), ShownFormat(props))
    /\ view.copyOnClick.displayText = ShownText(props)
    /\ (lastEvent.kind = "copy" /\ lastEvent.written # Undefined) =>
         lastEvent.written = Some(ShownText(props))

\* a copy under an override wrote a text that is neither the stored
\* displayText nor the text of the message's own format
C8_Witness ==
    /\ lastEvent.kind = "copy"
    /\ props.displayFormat # Undefined
    /\ lastEvent.written = Some(ShownText(props))
    /\ ShownText(props) # props.message.displayText
    /\ ShownText(props) # bytesToString(DataHeap[props.message.data],
                                         props.message.format)

\* C10: the comparator lets a render be skipped only when the ten compared
\* values are identical, and what the item shows and does is always what a
\* fresh render of the latest props would show and do.
C10_NeverStale ==
    /\ arePropsEqual(memoProps, props)
    /\ [memoProps EXCEPT !.message.displayText = props.message.displayText] = props
    /\ view = RenderView(MountHooks(props), props, isHovered)

\* a render was skipped: the latest props differ from the rendered ones
C10_Witness ==
    /\ lastEvent.kind = "props"
    /\ props # memoProps

============================================================================
